---- MODULE Spec2Model ----
(***************************************************************************)
(* Model of the NHL stats ingestion pipeline: the source adapter           *)
(* (nhl_api_client.py), the session scope (database.py), the fetch         *)
(* operations and the full run (data_manager.py).                          *)
(*                                                                         *)
(* One fetch call is one step: the program is sequential and a call holds  *)
(* no state across its return.  The inputs of a call are what the          *)
(* environment decides: the outcome of the HTTP request, the body that     *)
(* came back, the hash seed of the Python process, and whether the         *)
(* database connection is lost while a session scope commits.              *)
(***************************************************************************)
EXTENDS Integers, Sequences, FiniteSets, TLC

(***************************************************************************)
(* Bounds of the model.                                                    *)
(***************************************************************************)
MaxCmds == 3        \* fetch commands issued one after another (Spec)
MaxStandings == 2   \* entries of a standings payload
MaxGroup == 1       \* entries of one position group of a roster payload
MaxRoster == 2      \* entries of a roster payload
MaxRosterCmds == 2  \* fetch-roster commands issued one after another (SpecRoster)
MaxSeasonCmds == 2  \* fetch-stats commands issued one after another (SpecSeason)

(***************************************************************************)
(* Python values.                                                          *)
(***************************************************************************)
None == "None"      \* Python None where a string is expected
NoId == 0 - 1       \* Python None where an integer id is expected

HashModulus == 100

RECURSIVE SeqsUpTo(_, _)
SeqsUpTo(S, n) ==
    IF n = 0 THEN {<<>>}
    ELSE LET shorter == SeqsUpTo(S, n - 1)
         IN  shorter \cup {Append(s, e) : s \in {t \in shorter : Len(t) = n - 1}, e \in S}

(***************************************************************************)
(* Inputs: what the upstream API and the environment can deliver.          *)
(***************************************************************************)
Abbrevs == {"TOR", "BOS"}

\* outcome of session.get / raise_for_status / response.json
TransportFailures == {"network_error", "timeout", "http_error", "undecodable"}
Transports == TransportFailures \cup {"ok"}

\* teamLogo of a standings entry: absent, or a URL that has a "/<digits>."
\* segment (digits = the number) or has none (digits = NoId)
NoLogo == [present |-> FALSE, digits |-> NoId]
LogoWithId(n) == [present |-> TRUE, digits |-> n]
LogoWithoutId == [present |-> TRUE, digits |-> NoId]

PlaceOf(a) == IF a = "TOR" THEN "Toronto" ELSE "Boston"
CommonOf(a) == IF a = "TOR" THEN "Maple Leafs" ELSE "Bruins"

StandingEntry(a, l, n) ==
    [teamAbbrev |-> a, teamLogo |-> l, teamName |-> n,
     placeName |-> IF a = None THEN "Toronto" ELSE PlaceOf(a),
     teamCommonName |-> IF a = None THEN "Maple Leafs" ELSE CommonOf(a)]

\* the standings entries the model feeds in: a team with a numeric logo id,
\* a second team with the same logo id, with a logo that carries no id and
\* with no logo at all, and an entry without a short code
StandingEntries ==
    {StandingEntry("TOR", LogoWithId(10), "Maple Leafs"),
     StandingEntry("BOS", LogoWithId(10), None),
     StandingEntry("BOS", LogoWithoutId, "Bruins"),
     StandingEntry("BOS", NoLogo, "Bruins"),
     StandingEntry(None, LogoWithId(10), "Maple Leafs")}

\* decoded JSON bodies of GET /standings/now
\*   "empty"        {}                       (falsy)
\*   "no_standings" an object without the key 'standings'
\*   "bad_entry"    {"standings": [1]}       (an entry that is no object)
\*   "standings"    {"standings": [...]}
TeamsBodies ==
    {[shape |-> s, standings |-> <<>>] : s \in {"empty", "no_standings", "bad_entry"}}
        \cup {[shape |-> "standings", standings |-> st] :
                st \in SeqsUpTo(StandingEntries, MaxStandings)}

\* hash seeds of a Python process (PYTHONHASHSEED is random per process)
Seeds == {0, 1}

(***************************************************************************)
(* Source adapter (nhl_api_client.py).                                     *)
(***************************************************************************)
\* the value of a request that returned None
NoData == [shape |-> "None"]

\* _make_request: every RequestException is swallowed into None
MakeRequest(transport, body) ==
    IF transport \in TransportFailures THEN NoData ELSE body

\* hash(team_abbrev) of a str: a value that depends on the process's seed
StrHash(seed, abbr) ==
    CASE seed = 0 /\ abbr = "TOR" -> 731
      [] seed = 0 /\ abbr = "BOS" -> 410
      [] seed = 1 /\ abbr = "TOR" -> 257
      [] seed = 1 /\ abbr = "BOS" -> 731
      [] OTHER -> 999

\* team id of a standings entry: lines 70-75
TeamIdOf(standing, seed) ==
    LET logo == standing.teamLogo
    IN  IF ~logo.present THEN NoId
        ELSE IF logo.digits # NoId THEN logo.digits
        ELSE StrHash(seed, standing.teamAbbrev) % HashModulus

\* the team object built from one standings entry: lines 78-84
TeamObj(standing, seed) ==
    [id |-> TeamIdOf(standing, seed),
     name |-> IF standing.teamName \notin {None, ""}
              THEN standing.teamName
              ELSE standing.placeName \o " " \o standing.teamCommonName,
     abbreviation |-> standing.teamAbbrev,
     city |-> standing.placeName,
     active |-> TRUE]

\* ExtractTeams with a bug: seen_abbrevs is never consulted
RECURSIVE ExtractTeamsAll(_, _, _, _)
ExtractTeamsAll(standings, seed, teams, seen_abbrevs) ==
    IF standings = <<>> THEN teams
    ELSE LET standing == Head(standings)
             keep == standing.teamAbbrev \notin {None, ""}
         IN  ExtractTeamsAll(Tail(standings), seed,
                             IF keep THEN Append(teams, TeamObj(standing, seed)) ELSE teams,
                             seen_abbrevs)

\* the loop of get_teams: an entry is kept when it has a short code that
\* was not seen before
RECURSIVE ExtractTeams(_, _, _, _)
ExtractTeams(standings, seed, teams, seen_abbrevs) ==
    IF standings = <<>> THEN teams
    ELSE LET standing == Head(standings)
             team_abbrev == standing.teamAbbrev
             keep == team_abbrev \notin {None, ""} /\ team_abbrev \notin seen_abbrevs
         IN  ExtractTeams(Tail(standings), seed,
                          IF keep THEN Append(teams, TeamObj(standing, seed)) ELSE teams,
                          IF keep THEN seen_abbrevs \cup {team_abbrev} ELSE seen_abbrevs)

\* get_teams: [tag |-> "none" | "list" | "raise", teams |-> ...]
GetTeams(transport, body, seed) ==
    LET data == MakeRequest(transport, body)
    IN  IF data.shape \in {"None", "empty", "no_standings"}
        THEN [tag |-> "none", teams |-> <<>>]
        ELSE IF data.shape = "bad_entry"
        THEN [tag |-> "raise", teams |-> <<>>]
        ELSE [tag |-> "list", teams |-> ExtractTeams(data.standings, seed, <<>>, {})]

(***************************************************************************)
(* Session scope (database.py, get_session) and the ledger.                *)
(*                                                                         *)
(* db.Session is a scoped_session: every get_session() of the one thread   *)
(* yields the same session, so the success entry that a fetch writes from  *)
(* inside its own scope is committed together with the fetch's rows.       *)
(***************************************************************************)
\* dict.get(key, default)
Get(d, k, default) == IF k \in DOMAIN d THEN d[k] ELSE default

\* the session at the start of a scope: the committed rows, nothing pending
Begin(db) ==
    [teams |-> db.teams, players |-> db.players, team_stats |-> db.team_stats,
     flush_error |-> FALSE, err |-> None, count |-> 0]

Raise(sess, exc) == [sess EXCEPT !.err = exc]

\* session.commit(): the flush raises on a pending row that violates NOT
\* NULL, the COMMIT raises when the connection is lost
CommitError(sess, lost) ==
    IF sess.flush_error THEN "IntegrityError"
    ELSE IF lost THEN "OperationalError"
    ELSE None

\* the DataFetchLog row that _log_fetch adds
LogEntry(fetch_type, status, records, error, duration) ==
    [fetch_type |-> fetch_type, status |-> status, records_fetched |-> records,
     error_message |-> error, duration_seconds |-> duration]

\* LogFetch with a bug: the newest entry of the fetch type is overwritten
LogFetchInPlace(ledger, fetch_type, status, records, error, duration) ==
    LET same == {i \in DOMAIN ledger : ledger[i].fetch_type = fetch_type}
        e == LogEntry(fetch_type, status, records, error, duration)
    IN  IF same = {} THEN Append(ledger, e)
        ELSE [ledger EXCEPT ![CHOOSE i \in same : \A j \in same : j <= i] = e]

\* _log_fetch whose scope commits
LogFetch(ledger, fetch_type, status, records, error, duration) ==
    Append(ledger, LogEntry(fetch_type, status, records, error, duration))

\* the result of a fetch call: the datastore afterwards and how the call ended
\*   ret   "True" | "False" | "raise" (an exception left the method)
\*   path  "success" | "no_data" | "missing_team" | "exception"
\*   exc   the exception caught by the method's handler (None: none)
\*   count the value of the local variable count when the scope ended
Outcome(db, teams, players, team_stats, ledger, ret, path, exc, count) ==
    [teams |-> teams, players |-> players, team_stats |-> team_stats,
     ledger |-> ledger, ret |-> ret, path |-> path, exc |-> exc, count |-> count]

\* Rollback with a bug: the rows the session had flushed stay
RollbackKeepsFlushed(db, sess) ==
    [teams |-> sess.teams, players |-> sess.players, team_stats |-> sess.team_stats]

\* session.rollback() in the except clause of get_session: the rows are the
\* committed ones again, whatever the session had flushed
Rollback(db, sess) ==
    [teams |-> db.teams, players |-> db.players, team_stats |-> db.team_stats]

\* the except block of a fetch method, entered with exception exc after the
\* scope (if one was open) was rolled back: one error entry is written in a
\* scope of its own, whose commit can fail as well
Handler(db, sess, fetch_type, exc, lost2) ==
    LET rows == Rollback(db, sess)
    IN  IF lost2
        THEN Outcome(db, rows.teams, rows.players, rows.team_stats, db.ledger,
                     "raise", "exception", exc, sess.count)
        ELSE Outcome(db, rows.teams, rows.players, rows.team_stats,
                     LogFetch(db.ledger, fetch_type, "error", 0, exc, "measured"),
                     "False", "exception", exc, sess.count)

\* the early exit on 'no data': one error entry without a duration, written
\* inside the try block
NoDataExit(db, fetch_type, message, lost1, lost2) ==
    IF lost1 THEN Handler(db, Begin(db), fetch_type, "OperationalError", lost2)
    ELSE Outcome(db, db.teams, db.players, db.team_stats,
                 LogFetch(db.ledger, fetch_type, "error", 0, message, None),
                 "False", "no_data", None, 0)

\* SuccessExit with a bug: _log_fetch commits the success entry in a
\* session of its own before the scope of the rows ends
SuccessExitLogFirst(db, sess, fetch_type, lost1, lost2) ==
    LET c == CommitError(sess, lost1)
        logged == LogFetch(db.ledger, fetch_type, "success", sess.count, None, "measured")
    IN  IF c # None
        THEN Handler([db EXCEPT !.ledger = logged], sess, fetch_type, c, lost2)
        ELSE Outcome(db, sess.teams, sess.players, sess.team_stats, logged,
                     "True", "success", None, sess.count)

\* the end of a scope whose body ran through: the nested _log_fetch commits
\* the rows and the success entry in one transaction
SuccessExit(db, sess, fetch_type, lost1, lost2) ==
    LET c == CommitError(sess, lost1)
    IN  IF c # None THEN Handler(db, sess, fetch_type, c, lost2)
        ELSE Outcome(db, sess.teams, sess.players, sess.team_stats,
                     LogFetch(db.ledger, fetch_type, "success", sess.count, None, "measured"),
                     "True", "success", None, sess.count)

(***************************************************************************)
(* fetch_and_store_teams (data_manager.py).                                *)
(***************************************************************************)
\* session.query(...).filter_by(...): the positions of the rows that match
\* line 49: query(Team).filter_by(nhl_id=...) over the rows the session
\* sees (nhl_id = NULL matches no row)
FindTeam(rows, nhl_id) ==
    {i \in 1..Len(rows) : nhl_id # NoId /\ rows[i].nhl_id = nhl_id}

\* lines 49-76: one iteration of the loop over teams_data
StoreTeam(sess, team_data, now) ==
    IF sess.flush_error THEN Raise(sess, "IntegrityError")   \* autoflush of the query
    ELSE
    LET nhl_id == Get(team_data, "id", NoId)
        found == FindTeam(sess.teams, nhl_id)
        name0 == Get(team_data, "name", None)
        team_name == IF name0 \notin {None, ""} THEN name0
                     ELSE Get(team_data, "fullName", "")
        abbr0 == Get(team_data, "abbreviation", None)
        team_abbr == IF abbr0 \notin {None, ""} THEN abbr0
                     ELSE Get(team_data, "triCode", "")
        venue == Get(team_data, "venue", <<>>)
        team_city == IF venue # <<>> THEN Get(venue, "city", "") ELSE ""
    IN  IF found # {}
        THEN LET i == CHOOSE i \in found : TRUE
             IN  [sess EXCEPT !.teams[i].name = team_name,
                              !.teams[i].abbreviation = team_abbr,
                              !.teams[i].city = team_city,
                              !.teams[i].updated_at = now,
                              !.count = @ + 1]
        ELSE [sess EXCEPT !.teams = Append(@, [id |-> Len(@) + 1,
                                               nhl_id |-> nhl_id,
                                               name |-> team_name,
                                               abbreviation |-> team_abbr,
                                               city |-> team_city,
                                               active |-> Get(team_data, "active", TRUE),
                                               created_at |-> now,
                                               updated_at |-> now]),
                          !.flush_error = (nhl_id = NoId),
                          !.count = @ + 1]

RECURSIVE StoreTeams(_, _, _)
StoreTeams(sess, teams_data, now) ==
    IF teams_data = <<>> \/ sess.err # None THEN sess
    ELSE StoreTeams(StoreTeam(sess, Head(teams_data), now), Tail(teams_data), now)

FetchAndStoreTeams(db, transport, body, seed, lost1, lost2, now) ==
    LET got == GetTeams(transport, body, seed)
    IN  IF got.tag = "raise"
        THEN Handler(db, Begin(db), "teams", "AttributeError", lost2)
        ELSE IF got.tag = "none" \/ got.teams = <<>>
        THEN NoDataExit(db, "teams", "No data returned from API", lost1, lost2)
        ELSE LET sess == StoreTeams(Begin(db), got.teams, now)
             IN  IF sess.err # None THEN Handler(db, sess, "teams", sess.err, lost2)
                 ELSE SuccessExit(db, sess, "teams", lost1, lost2)

(***************************************************************************)
(* fetch_and_store_team_roster and _store_player (data_manager.py).        *)
(***************************************************************************)
\* localized name objects of a roster entry
NameObj(v) == [default |-> v]

\* a plain string where an object is expected
RawStr(v) == [raw |-> v]

\* a roster entry; firstName is a localized object, or (malformed) a plain
\* string
PlayerEntry(id, birthDate, firstName) ==
    [id |-> id, birthDate |-> birthDate, firstName |-> firstName]

PlayerEntries ==
    {PlayerEntry(1, "2000-01-15", NameObj("Auston")),
     PlayerEntry(1, "15/01/2000", NameObj("Auston")),   \* unparsable date
     PlayerEntry(2, None, NameObj("Brad")),             \* no birthDate
     PlayerEntry(NoId, None, NameObj("Nobody")),        \* no player id
     PlayerEntry(2, None, NameObj(None)),               \* "default": null
     PlayerEntry(2, None, RawStr("Brad"))}              \* not an object

\* the entries the goalies group is drawn from: _store_player treats the
\* three groups alike, so the variety is kept in the first two
GoalieEntries == {PlayerEntry(1, "2000-01-15", NameObj("Auston"))}

\* decoded JSON bodies of GET /roster/{team}/{season}
\*   "empty"  {}        (falsy)
\*   "list"   [1]       (truthy, no object)
\*   "roster" an object with the three position groups
RosterBody(f, d, g) ==
    [shape |-> "roster", forwards |-> f, defensemen |-> d, goalies |-> g]

RosterBodies ==
    {[shape |-> s] : s \in {"empty", "list"}}
        \cup {b \in {RosterBody(f, d, g) : f \in SeqsUpTo(PlayerEntries, MaxGroup),
                                          d \in SeqsUpTo(PlayerEntries, MaxGroup),
                                          g \in SeqsUpTo(GoalieEntries, MaxGroup)} :
                Len(b.forwards) + Len(b.defensemen) + Len(b.goalies) <= MaxRoster}

\* get_team_roster, get_team_stats: the data when it is truthy, else None
GetData(transport, body) ==
    LET data == MakeRequest(transport, body)
    IN  IF data.shape \in {"None", "empty"} THEN NoData ELSE data

\* datetime.strptime(s, '%Y-%m-%d').date() inside the bare try/except of
\* lines 146-151.  strptime wants a four-digit year, a month and a day of
\* one or two digits, nothing before, between or after them, and a date
\* that exists; date.isoformat() of the result stands for the date.
IsDigit(c) == c \in {"0", "1", "2", "3", "4", "5", "6", "7", "8", "9"}

DigitVal(c) ==
    CASE c = "0" -> 0 [] c = "1" -> 1 [] c = "2" -> 2 [] c = "3" -> 3 [] c = "4" -> 4
      [] c = "5" -> 5 [] c = "6" -> 6 [] c = "7" -> 7 [] c = "8" -> 8 [] OTHER -> 9

AllDigits(s) == Len(s) > 0 /\ \A i \in 1..Len(s) : IsDigit(SubSeq(s, i, i))

RECURSIVE NumVal(_)
NumVal(s) ==
    IF Len(s) = 0 THEN 0
    ELSE 10 * NumVal(SubSeq(s, 1, Len(s) - 1)) + DigitVal(SubSeq(s, Len(s), Len(s)))

IsLeap(y) == (y % 4 = 0 /\ y % 100 # 0) \/ y % 400 = 0

DaysIn(y, m) ==
    IF m = 2 THEN (IF IsLeap(y) THEN 29 ELSE 28)
    ELSE IF m \in {4, 6, 9, 11} THEN 30 ELSE 31

Pad2(n) == IF n < 10 THEN "0" \o ToString(n) ELSE ToString(n)

\* ParseBirthDate with a bug: the string is stored as it came
ParseBirthDateUnchecked(s) == IF s \in {None, ""} THEN None ELSE s

ParseBirthDate(s) ==
    IF s \in {None, ""} THEN None      \* line 147: a falsy birthDate
    ELSE
    LET dashes == {i \in 1..Len(s) : SubSeq(s, i, i) = "-"}
    IN  IF Cardinality(dashes) # 2 THEN None
        ELSE
        LET a == CHOOSE i \in dashes : \A k \in dashes : i <= k
            b == CHOOSE i \in dashes : \A k \in dashes : k <= i
            y == SubSeq(s, 1, a - 1)
            m == SubSeq(s, a + 1, b - 1)
            d == SubSeq(s, b + 1, Len(s))
        IN  IF /\ Len(y) = 4 /\ AllDigits(y) /\ NumVal(y) >= 1
               /\ Len(m) \in {1, 2} /\ AllDigits(m) /\ NumVal(m) \in 1..12
               /\ Len(d) \in {1, 2} /\ AllDigits(d)
               /\ NumVal(d) \in 1..DaysIn(NumVal(y), NumVal(m))
            THEN y \o "-" \o Pad2(NumVal(m)) \o "-" \o Pad2(NumVal(d))
            ELSE None

\* FindPlayer with a bug: the lookup compares the primary key
FindPlayerByPrimaryKey(rows, player_id) ==
    {i \in 1..Len(rows) : rows[i].id = player_id}

\* line 143: query(Player).filter_by(nhl_id=player_id)
FindPlayer(rows, player_id) ==
    {i \in 1..Len(rows) : rows[i].nhl_id = player_id}

\* lines 207-209: query(TeamStats).filter_by(team_id=team.id, season=season)
FindTeamStats(rows, team_id, season) ==
    {i \in 1..Len(rows) : rows[i].team_id = team_id /\ rows[i].season = season}

\* lines 137-184
StorePlayer(sess, player_data, team_id, now) ==
    LET player_id == Get(player_data, "id", NoId)
    IN  IF player_id = NoId \/ player_id = 0 THEN sess
        ELSE IF sess.flush_error THEN Raise(sess, "IntegrityError")   \* autoflush
        ELSE
        LET found == FindPlayer(sess.players, player_id)
            birth_date == ParseBirthDate(Get(player_data, "birthDate", None))
            firstName == Get(player_data, "firstName", <<>>)
        IN  IF "raw" \in DOMAIN firstName
            THEN Raise(sess, "AttributeError")   \* str has no attribute 'get'
            ELSE
            LET first_name == Get(firstName, "default", "")
            IN  IF found # {}
                THEN LET i == CHOOSE i \in found : TRUE
                     IN  [sess EXCEPT !.players[i].first_name = first_name,
                                      !.players[i].birth_date = birth_date,
                                      !.players[i].team_id = team_id,
                                      !.players[i].updated_at = now,
                                      !.flush_error = (first_name = None)]
                ELSE [sess EXCEPT !.players = Append(@, [id |-> Len(@) + 1,
                                                         nhl_id |-> player_id,
                                                         first_name |-> first_name,
                                                         birth_date |-> birth_date,
                                                         team_id |-> team_id,
                                                         active |-> TRUE,
                                                         created_at |-> now,
                                                         updated_at |-> now]),
                                  !.flush_error = (first_name = None)]

\* one of the three loops over a position group: count is incremented
\* after every call of _store_player
RECURSIVE StoreGroup(_, _, _, _)
StoreGroup(sess, group, team_id, now) ==
    IF group = <<>> \/ sess.err # None THEN sess
    ELSE LET s1 == StorePlayer(sess, Head(group), team_id, now)
             s2 == IF s1.err # None THEN s1 ELSE [s1 EXCEPT !.count = @ + 1]
         IN  StoreGroup(s2, Tail(group), team_id, now)

\* lines 108-123
StoreRoster(sess, roster_data, team_id, now) ==
    IF roster_data.shape = "list" THEN Raise(sess, "AttributeError")
    ELSE LET f == StoreGroup(sess, Get(roster_data, "forwards", <<>>), team_id, now)
             d == StoreGroup(f, Get(roster_data, "defensemen", <<>>), team_id, now)
         IN  StoreGroup(d, Get(roster_data, "goalies", <<>>), team_id, now)

\* MissingTeamExit with a bug: the not-found return writes an error entry
MissingTeamExitLogged(db, fetch_type, lost1, lost2) ==
    IF lost1 THEN Handler(db, Begin(db), fetch_type, "OperationalError", lost2)
    ELSE Outcome(db, db.teams, db.players, db.team_stats,
                 LogFetch(db.ledger, fetch_type, "error", 0, "Team not found", None),
                 "False", "missing_team", None, 0)

\* lines 101-106, 200-204: the team has no row and the method returns False
\* from inside the scope, which only read: its COMMIT raises when the
\* connection is lost
MissingTeamExit(db, fetch_type, lost1, lost2) ==
    IF lost1 THEN Handler(db, Begin(db), fetch_type, "OperationalError", lost2)
    ELSE Outcome(db, db.teams, db.players, db.team_stats, db.ledger,
                 "False", "missing_team", None, 0)

\* team is the position of the row that first() returned, 0 when there is
\* none
FetchAndStoreTeamRoster(db, team_abbr, team, transport, body, lost1, lost2, now) ==
    LET roster_data == GetData(transport, body)
    IN  IF roster_data = NoData
        THEN NoDataExit(db, "players", "No roster data for " \o team_abbr, lost1, lost2)
        ELSE IF team = 0 THEN MissingTeamExit(db, "players", lost1, lost2)
        ELSE LET sess == StoreRoster(Begin(db), roster_data, db.teams[team].id, now)
             IN  IF sess.err # None THEN Handler(db, sess, "players", sess.err, lost2)
                 ELSE SuccessExit(db, sess, "players", lost1, lost2)

\* the rows among which filter_by(abbreviation=team_abbr).first() picks
\* (no ORDER BY: any of them), {0} when there is none
TeamChoices(teams, team_abbr) ==
    LET found == {i \in 1..Len(teams) : teams[i].abbreviation = team_abbr}
    IN  IF found = {} THEN {0} ELSE found

(***************************************************************************)
(* fetch_and_store_team_stats (data_manager.py).                           *)
(***************************************************************************)
\* date.today(): the year and the month are what get_current_season reads
Todays == {[year |-> 2024, month |-> 3], [year |-> 2024, month |-> 11]}

\* GetCurrentSeason with a bug: October still counts as the old season
GetCurrentSeasonFromNovember(today) ==
    IF today.month > 10
    THEN ToString(today.year) \o ToString(today.year + 1)
    ELSE ToString(today.year - 1) \o ToString(today.year)

\* get_current_season: lines 35-42
GetCurrentSeason(today) ==
    IF today.month >= 10
    THEN ToString(today.year) \o ToString(today.year + 1)
    ELSE ToString(today.year - 1) \o ToString(today.year)

Seasons == {None, "20232024"}

\* decoded JSON bodies of GET /club-stats/{team}/{season}/2
\*   "empty"  {}   (falsy)
\*   "list"   [1]  (truthy, no object)
\*   "stats"  an object, with or without 'standings', with or without 'wins'
StatsBodies ==
    {[shape |-> s] : s \in {"empty", "list"}}
        \cup {[shape |-> "stats"],
              [shape |-> "stats", standings |-> [wins |-> 5]]}

\* lines 200-246; wins stands for the nine statistics, which are all read
\* and written the same way
FetchAndStoreTeamStats(db, team_abbr, team, season0, today, transport, body, lost1, lost2, now) ==
    LET season == IF season0 \in {None, ""} THEN GetCurrentSeason(today) ELSE season0
        stats_data == GetData(transport, body)
    IN  IF stats_data = NoData
        THEN NoDataExit(db, "team_stats", "No stats for " \o team_abbr, lost1, lost2)
        ELSE IF team = 0 THEN MissingTeamExit(db, "team_stats", lost1, lost2)
        ELSE IF stats_data.shape = "list"
        THEN Handler(db, Begin(db), "team_stats", "AttributeError", lost2)
        ELSE
        LET team_id == db.teams[team].id
            found == FindTeamStats(db.team_stats, team_id, season)
            standings == Get(stats_data, "standings", <<>>)
            wins == Get(standings, "wins", 0)
            sess0 == Begin(db)
            sess == IF found # {}
                    THEN LET i == CHOOSE i \in found : TRUE
                         IN  [sess0 EXCEPT !.team_stats[i].wins = wins,
                                           !.team_stats[i].updated_at = now,
                                           !.count = 1]
                    ELSE [sess0 EXCEPT !.team_stats = Append(@, [id |-> Len(@) + 1,
                                                                 team_id |-> team_id,
                                                                 season |-> season,
                                                                 wins |-> wins,
                                                                 created_at |-> now,
                                                                 updated_at |-> now]),
                                       !.count = 1]
        IN  SuccessExit(db, sess, "team_stats", lost1, lost2)

(***************************************************************************)
(* State.                                                                  *)
(***************************************************************************)
VARIABLES
    teams,        \* the rows of table teams, in the order of their id
    players,      \* the rows of table players
    team_stats,   \* the rows of table team_stats
    ledger,       \* the rows of table data_fetch_logs, oldest first
    now,          \* the clock: the number of fetch calls made so far
    last,         \* the last fetch call: its arguments, inputs and result
    run,          \* the full run (fetch_all_teams_data) in progress
    sched         \* the scheduler process (scheduler.py)

vars == <<teams, players, team_stats, ledger, now, last, run, sched>>

DB == [teams |-> teams, players |-> players, team_stats |-> team_stats,
       ledger |-> ledger]

\* what a request can deliver: a transport failure (no body), or a body
Responses(bodies) ==
    {[transport |-> t, body |-> NoData] : t \in TransportFailures}
        \cup {[transport |-> "ok", body |-> b] : b \in bodies}

\* the database connection during a call: up, lost while the call's first
\* scope commits and back for the next scope, or lost for good
Connections == {"up", "lost_once", "down"}
Lost1(conn) == conn # "up"
Lost2(conn) == conn = "down"

\* the team codes a command can name: one that no payload ever carries too
TeamArgs == Abbrevs \cup {"MTL"}

\* the record of a fetch call (no call yet: op = "none")
\*   transport, shape  the outcome of the request and the shape of its body
\*   adapter           "none" | "data" | "raise": how the adapter call ended
\*   body, teams_data  of a teams call: the body and what get_teams made of it
\*   ret, path, exc, count  see Outcome
\*   conn, today       recorded by the commands of SpecRoster and SpecSeason
\*   code              the exit code of a command of SpecCli
NoDay == [year |-> 0, month |-> 0]

NoCall == [op |-> "none", team_abbr |-> None, season |-> None,
           transport |-> "ok", shape |-> "None", adapter |-> None,
           body |-> NoData, teams_data |-> <<>>,
           ret |-> None, path |-> None, exc |-> None, count |-> 0,
           conn |-> None, today |-> NoDay, code |-> 0]

\* fetch_all_teams_data has not been called
\*   cli_season  the --season argument of the fetch-all command line
IdleRun == [pc |-> "idle", season |-> None, team_abbrs |-> <<>>, i |-> 0,
            teams_ret |-> None, listed |-> FALSE, attempted |-> <<>>, failed |-> 0,
            result |-> None, cli_season |-> None]

\* the scheduler has not been started
\*   pc       "off" | "start" | "initial" | "loop" | "job" | "stopped" | "killed"
\*   running  self.running
\*   day      the number of times 03:00 has passed since the start
\*   due      the value of day from which the daily job is pending
\*   invoked  the number of calls of update_all_stats
\*   results  how the calls of fetch_all_teams_data ended, oldest first
\*   aborted  the fetches that an interrupt cut short
NoSched == [pc |-> "off", running |-> FALSE, day |-> 0, due |-> 0,
            invoked |-> 0, results |-> <<>>, aborted |-> <<>>]

Init ==
    /\ teams = <<>>
    /\ players = <<>>
    /\ team_stats = <<>>
    /\ ledger = <<>>
    /\ now = 0
    /\ last = NoCall
    /\ run = IdleRun
    /\ sched = NoSched

\* the datastore and the record of the call after a fetch call returned o
Returned(o, call) ==
    /\ teams' = o.teams
    /\ players' = o.players
    /\ team_stats' = o.team_stats
    /\ ledger' = o.ledger
    /\ now' = now + 1
    /\ last' = [call EXCEPT !.ret = o.ret, !.path = o.path, !.exc = o.exc,
                            !.count = o.count]

(***************************************************************************)
(* The three fetch calls with their inputs.                                *)
(***************************************************************************)
\* how get_team_roster / get_team_stats ended
AdapterTag(response) ==
    IF GetData(response.transport, response.body) = NoData THEN "none" ELSE "data"

TeamsCall(response, seed, conn) ==
    Returned(FetchAndStoreTeams(DB, response.transport, response.body, seed,
                                Lost1(conn), Lost2(conn), now + 1),
             LET got == GetTeams(response.transport, response.body, seed)
             IN  [NoCall EXCEPT !.op = "teams", !.transport = response.transport,
                                !.shape = response.body.shape,
                                !.adapter = IF got.tag = "list" THEN "data" ELSE got.tag,
                                !.body = response.body,
                                !.teams_data = got.teams])

RosterCall(team_abbr, season, team, response, conn) ==
    Returned(FetchAndStoreTeamRoster(DB, team_abbr, team, response.transport,
                                     response.body, Lost1(conn), Lost2(conn), now + 1),
             [NoCall EXCEPT !.op = "roster", !.team_abbr = team_abbr,
                            !.season = season, !.transport = response.transport,
                            !.shape = response.body.shape,
                            !.adapter = AdapterTag(response)])

StatsCall(team_abbr, season, team, today, response, conn) ==
    Returned(FetchAndStoreTeamStats(DB, team_abbr, team, season, today,
                                    response.transport, response.body,
                                    Lost1(conn), Lost2(conn), now + 1),
             [NoCall EXCEPT !.op = "stats", !.team_abbr = team_abbr,
                            !.season = season, !.transport = response.transport,
                            !.shape = response.body.shape,
                            !.adapter = AdapterTag(response)])

(***************************************************************************)
(* The fetch commands, each one call of a fetch method in a process of     *)
(* its own (main.py: fetch-teams, fetch-roster, fetch-stats).              *)
(***************************************************************************)
FetchTeams ==
    /\ run.pc = "idle"
    /\ now < MaxCmds
    /\ \E response \in Responses(TeamsBodies), seed \in Seeds, conn \in Connections :
           TeamsCall(response, seed, conn)
    /\ UNCHANGED <<run, sched>>

FetchRoster ==
    /\ run.pc = "idle"
    /\ now < MaxCmds
    /\ \E team_abbr \in TeamArgs, response \in Responses(RosterBodies),
          conn \in Connections :
           \E team \in TeamChoices(teams, team_abbr) :
               RosterCall(team_abbr, None, team, response, conn)
    /\ UNCHANGED <<run, sched>>

FetchStats ==
    /\ run.pc = "idle"
    /\ now < MaxCmds
    /\ \E team_abbr \in TeamArgs, season \in Seasons, today \in Todays,
          response \in Responses(StatsBodies), conn \in Connections :
           \E team \in TeamChoices(teams, team_abbr) :
               StatsCall(team_abbr, season, team, today, response, conn)
    /\ UNCHANGED <<run, sched>>

Next == FetchTeams \/ FetchRoster \/ FetchStats

Spec == Init /\ [][Next]_vars

(***************************************************************************)
(* The full run, fetch_all_teams_data (data_manager.py), one fetch call a  *)
(* step.                                                                   *)
(*   pc      "idle" | "roster" | "stats" | "done"                          *)
(*   i       the position in team_abbrs of the team being processed        *)
(*   result  "True" | "False" | "raise" once pc = "done"                   *)
(* teams_ret, listed, attempted and failed record what the run did: the    *)
(* result of the teams step, whether the active teams were read, the       *)
(* per-team fetches called so far, and how many of them did not return     *)
(* True.                                                                   *)
(***************************************************************************)
\* the inputs of the calls of a run: each call can end in each of its ways
RunTeamsBodies ==
    {[shape |-> "bad_entry", standings |-> <<>>],
     [shape |-> "standings",
      standings |-> <<StandingEntry("TOR", LogoWithId(10), "Maple Leafs")>>],
     [shape |-> "standings",
      standings |-> <<StandingEntry("TOR", LogoWithId(10), "Maple Leafs"),
                      StandingEntry("BOS", LogoWithoutId, "Bruins")>>],
     [shape |-> "standings",
      standings |-> <<StandingEntry("TOR", LogoWithId(10), "Maple Leafs"),
                      StandingEntry("BOS", NoLogo, "Bruins")>>]}

RunRosterBodies ==
    {[shape |-> "list"],
     RosterBody(<<PlayerEntry(1, "2000-01-15", NameObj("Auston"))>>, <<>>,
                <<PlayerEntry(2, None, NameObj("Brad"))>>)}

RunStatsBodies ==
    {[shape |-> "list"], [shape |-> "stats", standings |-> [wins |-> 5]]}

RunResponses(bodies) ==
    {[transport |-> "timeout", body |-> NoData]}
        \cup {[transport |-> "ok", body |-> b] : b \in bodies}

\* the callers of fetch_all_teams_data pass no season
RunSeasons == {None}

\* ActiveOrders with a bug: the query does not filter by active
AllOrders(rows) ==
    {order \in [1..Len(rows) -> 1..Len(rows)] :
        \A j, k \in DOMAIN order : j # k => order[j] # order[k]}

\* the orders in which query(Team).filter_by(active=True).all() can return
\* the rows (no ORDER BY)
ActiveOrders(rows) ==
    LET active == {i \in 1..Len(rows) : rows[i].active}
    IN  {order \in [1..Cardinality(active) -> active] :
            \A j, k \in DOMAIN order : j # k => order[j] # order[k]}

\* lines 255-267: the teams step and the read of the active teams, in a
\* scope of its own whose COMMIT raises when the connection is lost; the
\* parameters are the sets the inputs of the step are drawn from
RunTeamsStep(seasons, responses, seeds, conns, lost_reads) ==
    /\ run.pc = "idle"
    /\ \E season \in seasons, response \in responses,
          seed \in seeds, conn \in conns, lost_read \in lost_reads :
           LET o == FetchAndStoreTeams(DB, response.transport, response.body, seed,
                                       Lost1(conn), Lost2(conn), now + 1)
           IN  /\ TeamsCall(response, seed, conn)
               /\ IF o.ret # "True"
                  THEN run' = [run EXCEPT !.pc = "done", !.season = season,
                                          !.teams_ret = o.ret, !.result = o.ret]
                  ELSE IF lost_read
                  THEN run' = [run EXCEPT !.pc = "done", !.season = season,
                                          !.teams_ret = o.ret, !.result = "raise"]
                  ELSE \E order \in ActiveOrders(o.teams) :
                           run' = [run EXCEPT
                                     !.pc = "roster", !.season = season,
                                     !.teams_ret = o.ret, !.listed = TRUE, !.i = 1,
                                     !.team_abbrs = [j \in DOMAIN order |->
                                                       o.teams[order[j]].abbreviation]]

\* a full run on the empty datastore
RunTeams ==
    /\ now = 0
    /\ RunTeamsStep(RunSeasons, RunResponses(RunTeamsBodies), Seeds, Connections, BOOLEAN)
    /\ UNCHANGED sched

\* the roster or stats call of the team at position i returned ret
AfterCall(kind, ret, next_pc, next_i) ==
    run' = [run EXCEPT
              !.attempted = Append(@, <<run.team_abbrs[run.i], kind>>),
              !.failed = IF ret = "True" THEN @ ELSE @ + 1,
              !.pc = IF ret = "raise" THEN "done" ELSE next_pc,
              !.i = IF ret = "raise" THEN @ ELSE next_i,
              !.result = IF ret = "raise" THEN "raise" ELSE @]

\* line 274
RunRosterStep(responses, conns) ==
    /\ run.pc = "roster"
    /\ run.i <= Len(run.team_abbrs)
    /\ \E response \in responses, conn \in conns :
           \E team \in TeamChoices(teams, run.team_abbrs[run.i]) :
               /\ RosterCall(run.team_abbrs[run.i], run.season, team, response, conn)
               /\ AfterCall("roster",
                            FetchAndStoreTeamRoster(DB, run.team_abbrs[run.i], team,
                                                    response.transport, response.body,
                                                    Lost1(conn), Lost2(conn),
                                                    now + 1).ret,
                            "stats", run.i)

RunRoster ==
    /\ RunRosterStep(RunResponses(RunRosterBodies), Connections)
    /\ UNCHANGED sched

\* line 277
RunStatsStep(todays, responses, conns) ==
    /\ run.pc = "stats"
    /\ \E today \in todays, response \in responses, conn \in conns :
           \E team \in TeamChoices(teams, run.team_abbrs[run.i]) :
               /\ StatsCall(run.team_abbrs[run.i], run.season, team, today, response, conn)
               /\ AfterCall("stats",
                            FetchAndStoreTeamStats(DB, run.team_abbrs[run.i], team,
                                                   run.season, today,
                                                   response.transport, response.body,
                                                   Lost1(conn), Lost2(conn), now + 1).ret,
                            "roster", run.i + 1)

RunStats ==
    /\ RunStatsStep(Todays, RunResponses(RunStatsBodies), Connections)
    /\ UNCHANGED sched

\* lines 280-281: the loop is over
RunReturn ==
    /\ run.pc = "roster"
    /\ run.i > Len(run.team_abbrs)
    /\ run' = [run EXCEPT !.pc = "done", !.result = "True"]
    /\ UNCHANGED <<teams, players, team_stats, ledger, now, last, sched>>

NextRun == RunTeams \/ RunRoster \/ RunStats \/ RunReturn

SpecRun == Init /\ [][NextRun]_vars

(***************************************************************************)
(* The command line (main.py): the summary view and the exit code.         *)
(***************************************************************************)
RecentLimit == 10

\* show_stats, lines 108-119: the RecentLimit newest entries are printed
\* with duration_seconds formatted as ':.2f', which raises TypeError for
\* None
ShowStats(entries) ==
    LET recent == {i \in DOMAIN entries : i > Len(entries) - RecentLimit}
    IN  IF \E i \in recent : entries[i].duration_seconds = None
        THEN "TypeError" ELSE "printed"

\* main, lines 166-196: the value a fetch function returns is dropped; the
\* process ends with 1 when an exception reaches main, with 0 on
\* KeyboardInterrupt and with 0 when main returns
ExitCode(ret) == IF ret = "raise" THEN 1 ELSE 0

(***************************************************************************)
(* The fetch-roster command on a datastore that holds the team: the        *)
(* payloads vary the birthDate of the entries, and the record of the call  *)
(* keeps the payload and the state of the connection.                      *)
(***************************************************************************)
EmptyDB == [teams |-> <<>>, players |-> <<>>, team_stats |-> <<>>, ledger |-> <<>>]

\* the datastore after fetch-teams stored TOR
AfterTeamsFetch ==
    FetchAndStoreTeams(EmptyDB, "ok",
                       [shape |-> "standings",
                        standings |-> <<StandingEntry("TOR", LogoWithId(10), "Maple Leafs")>>],
                       0, FALSE, FALSE, 1)

\* the state after that command
InitStored ==
    /\ teams = AfterTeamsFetch.teams
    /\ players = AfterTeamsFetch.players
    /\ team_stats = AfterTeamsFetch.team_stats
    /\ ledger = AfterTeamsFetch.ledger
    /\ now = 1
    /\ last = [NoCall EXCEPT !.op = "teams", !.shape = "standings", !.adapter = "data",
                             !.ret = AfterTeamsFetch.ret, !.path = AfterTeamsFetch.path,
                             !.count = AfterTeamsFetch.count]
    /\ run = IdleRun
    /\ sched = NoSched

\* birthDate values: two dates strptime reads, three strings it rejects
\* (no such day, no such day in a year that is no leap year, another
\* format), the empty string and a missing key
BirthDates ==
    {"2000-01-15", "2000-1-5", "2000-02-30", "1900-02-29", "15/01/2000", "", None}

DatedEntries ==
    {PlayerEntry(1, d, NameObj("Auston")) : d \in BirthDates}
        \cup {PlayerEntry(2, "2000-01-15", NameObj("Brad")),
              PlayerEntry(NoId, None, NameObj("Nobody"))}

DatedRosterBodies ==
    {RosterBody(f, <<>>, <<>>) : f \in SeqsUpTo(DatedEntries, MaxRoster)}

RosterCommand ==
    /\ run.pc = "idle"
    /\ now < 1 + MaxRosterCmds
    /\ \E response \in RunResponses(DatedRosterBodies), conn \in {"up", "lost_once"} :
           \E team \in TeamChoices(teams, "TOR") :
               Returned(FetchAndStoreTeamRoster(DB, "TOR", team, response.transport,
                                                response.body, Lost1(conn), Lost2(conn),
                                                now + 1),
                        [NoCall EXCEPT !.op = "roster", !.team_abbr = "TOR",
                                       !.transport = response.transport,
                                       !.shape = response.body.shape,
                                       !.adapter = AdapterTag(response),
                                       !.body = response.body,
                                       !.conn = conn])
    /\ UNCHANGED <<run, sched>>

SpecRoster == InitStored /\ [][RosterCommand]_vars

(***************************************************************************)
(* The fetch-stats command on a datastore that holds the team, on the days *)
(* of two years: the record of the call keeps the day.                     *)
(***************************************************************************)
FirstYear == 2023
LastYear == 2024

\* date.today(): every month of the two years
SeasonDays == {[year |-> y, month |-> m] : y \in FirstYear..LastYear, m \in 1..12}

StatsCommand ==
    /\ run.pc = "idle"
    /\ now < 1 + MaxSeasonCmds
    /\ \E season \in Seasons, today \in SeasonDays :
           \E team \in TeamChoices(teams, "TOR") :
               Returned(FetchAndStoreTeamStats(DB, "TOR", team, season, today, "ok",
                                               [shape |-> "stats", standings |-> [wins |-> 5]],
                                               FALSE, FALSE, now + 1),
                        [NoCall EXCEPT !.op = "stats", !.team_abbr = "TOR",
                                       !.season = season, !.shape = "stats",
                                       !.adapter = "data", !.today = today,
                                       !.conn = "up"])
    /\ UNCHANGED <<run, sched>>

SpecSeason == InitStored /\ [][StatsCommand]_vars

(***************************************************************************)
(* The fetch-all command (main.py) on a datastore that earlier commands    *)
(* have filled.  Column active of a team is read by the run and written    *)
(* by nothing in the pipeline but the insert of the row; a team is         *)
(* inactive when it was switched off in the database.                      *)
(***************************************************************************)
\* the teams table before the command: empty, as fetch-teams left it, or
\* with its team switched off since
StoredTeams ==
    {<<>>, AfterTeamsFetch.teams,
     [i \in DOMAIN AfterTeamsFetch.teams |->
        [AfterTeamsFetch.teams[i] EXCEPT !.active = FALSE]]}

\* main.py lines 76-81 and 179-180: fetch_all() is called without
\* args.season and calls fetch_all_teams_data() without a season
FetchAllSeason(cli_season) == None

InitFetchAll ==
    \E stored \in StoredTeams, cli_season \in Seasons :
        /\ teams = stored
        /\ players = <<>>
        /\ team_stats = <<>>
        /\ ledger = IF stored = <<>> THEN <<>> ELSE AfterTeamsFetch.ledger
        /\ now = IF stored = <<>> THEN 0 ELSE 1
        /\ last = NoCall
        /\ run = [IdleRun EXCEPT !.cli_season = cli_season]
        /\ sched = NoSched

FetchAllCommand ==
    /\ RunTeamsStep({FetchAllSeason(run.cli_season)}, RunResponses(RunTeamsBodies),
                    Seeds, Connections, BOOLEAN)
    /\ UNCHANGED sched

NextFetchAll == FetchAllCommand \/ RunRoster \/ RunStats \/ RunReturn

SpecFetchAll == InitFetchAll /\ [][NextFetchAll]_vars

(***************************************************************************)
(* Claims.                                                                 *)
(***************************************************************************)
\* a step that is one fetch call
IsCall == now' = now + 1

EntitiesUnchanged ==
    /\ teams' = teams
    /\ players' = players
    /\ team_stats' = team_stats

\* C1: every fetch call appends exactly one ledger entry on every exit
\* path, so after N calls the ledger has grown by exactly N entries.  Stated
\* for the calls that return to their caller (the call that ends in an
\* exception of its own handler is the subject of C8).
C1_OneEntryPerCall ==
    [][(IsCall /\ last'.ret # "raise") => Len(ledger') = Len(ledger) + 1]_vars

\* C2: the entity changes of one fetch call are atomic: a call that does
\* not return True leaves the rows of teams, players and team_stats exactly
\* as they were, and a teams call that returns True has committed a row for
\* every team it was given.
C2_Atomic ==
    [][IsCall =>
         /\ last'.ret # "True" => EntitiesUnchanged
         /\ (last'.op = "teams" /\ last'.ret = "True") =>
                \A k \in DOMAIN last'.teams_data :
                    \E i \in DOMAIN teams' : teams'[i].nhl_id = last'.teams_data[k].id]_vars

\* C2 witness: a roster call failed after it had stored a player in its
\* session, and table players is still empty.
C2_Witness ==
    /\ last.op = "roster"
    /\ last.path = "exception"
    /\ last.ret = "False"
    /\ last.count >= 1
    /\ players = <<>>

\* no two positions of a sequence of keys hold the same key
Unique(keys) ==
    \A i, j \in DOMAIN keys : i # j => keys[i] # keys[j]

\* C3: in every reachable state no two teams share nhl_id, no two players
\* share nhl_id, and no two team_stats rows share (team_id, season).
C3_NaturalKeysUnique ==
    /\ Unique([i \in DOMAIN teams |-> teams[i].nhl_id])
    /\ Unique([i \in DOMAIN players |-> players[i].nhl_id])
    /\ Unique([i \in DOMAIN team_stats |->
                   <<team_stats[i].team_id, team_stats[i].season>>])

\* C3 witness: a roster call that succeeded found a player stored by an
\* earlier call and updated the row in place.
C3_Witness ==
    /\ last.op = "roster"
    /\ last.ret = "True"
    /\ \E i \in DOMAIN players : /\ players[i].created_at < now
                                 /\ players[i].updated_at = now

\* the incoming record that a teams call applied last to the row with this
\* nhl_id (a later record of the same call overwrites an earlier one)
LastRecordFor(teams_data, nhl_id) ==
    LET ks == {k \in DOMAIN teams_data : teams_data[k].id = nhl_id}
    IN  teams_data[CHOOSE k \in ks : \A j \in ks : j <= k]

\* C4: re-running the teams fetch with identical upstream data adds no row
\* and advances updated_at on every matching row, also for entries whose
\* id comes from the fallback rule.
C4_RefetchIdempotent ==
    [][(/\ IsCall
        /\ last.op = "teams" /\ last.ret = "True"
        /\ last'.op = "teams" /\ last'.ret = "True"
        /\ last'.body = last.body)
       => /\ Len(teams') = Len(teams)
          /\ \A k \in DOMAIN last'.teams_data :
                 \E i \in DOMAIN teams :
                     /\ teams[i].nhl_id = last'.teams_data[k].id
                     /\ teams'[i].updated_at > teams[i].updated_at]_vars

\* C5: a teams fetch that matches an existing team by nhl_id overwrites
\* name, city and active with the incoming values and refreshes updated_at;
\* nhl_id is unchanged and exactly one row carries it afterwards.
C5_MatchOverwritesAll ==
    [][(IsCall /\ last'.op = "teams" /\ last'.ret = "True") =>
         \A i \in DOMAIN teams :
             (\E k \in DOMAIN last'.teams_data : last'.teams_data[k].id = teams[i].nhl_id)
             => LET t == LastRecordFor(last'.teams_data, teams[i].nhl_id)
                IN  /\ teams'[i].nhl_id = teams[i].nhl_id
                    /\ teams'[i].name = t.name
                    /\ teams'[i].city = t.city
                    /\ teams'[i].active = t.active
                    /\ teams'[i].updated_at = now'
                    /\ Cardinality({j \in DOMAIN teams' :
                                      teams'[j].nhl_id = t.id}) = 1]_vars

\* C6: in a full run whose teams step succeeded, a failing roster or stats
\* fetch of one team never keeps the fetches of the later teams from being
\* attempted, and the run returns True however many of them failed.
C6_PerTeamFailuresTolerated ==
    (run.pc = "done" /\ run.teams_ret = "True" /\ run.listed) =>
        /\ run.result = "True"
        /\ run.attempted = [n \in 1..(2 * Len(run.team_abbrs)) |->
                              <<run.team_abbrs[(n + 1) \div 2],
                                IF n % 2 = 1 THEN "roster" ELSE "stats">>]

\* C7: a full run whose teams step fails returns False at once and attempts
\* no roster or stats fetch.
C7_TeamsFailureAborts ==
    (run.pc # "idle" /\ run.teams_ret # "True") =>
        /\ run.pc = "done"
        /\ run.result = "False"
        /\ run.attempted = <<>>

PersistenceErrors == {"IntegrityError", "OperationalError"}

\* C8: a persistence failure in the unit of work of a fetch call (a call
\* that had stored a record in its session) is caught inside the fetch
\* method: the rows are rolled back, exactly one 'error' entry with the
\* message and a duration is written, the method returns False and raises
\* nothing.
C8_PersistenceFailureCaught ==
    [][(IsCall /\ last'.count >= 1 /\ last'.exc \in PersistenceErrors) =>
         /\ EntitiesUnchanged
         /\ last'.ret = "False"
         /\ Len(ledger') = Len(ledger) + 1
         /\ ledger'[Len(ledger')].status = "error"
         /\ ledger'[Len(ledger')].error_message = last'.exc
         /\ ledger'[Len(ledger')].duration_seconds # None]_vars

\* bodies that decode but do not have the form the adapter reads
MalformedShapes == {"bad_entry", "list"}

\* C9: for every transport-level outcome (network error, timeout, HTTP
\* error status, undecodable or malformed body) the adapter returns None
\* and raises nothing; the fetch call then writes one 'error' entry,
\* returns False and leaves the rows unchanged.  Stated for the calls that
\* return to their caller.
C9_TransportFailureIsNoData ==
    [][(/\ IsCall /\ last'.ret # "raise"
        /\ (last'.transport \in TransportFailures \/ last'.shape \in MalformedShapes))
       => /\ last'.adapter = "none"
          /\ last'.ret = "False"
          /\ Len(ledger') = Len(ledger) + 1
          /\ ledger'[Len(ledger')].status = "error"
          /\ EntitiesUnchanged]_vars

\* a roster or stats call for a team code without a row in teams
IsCallForMissingTeam ==
    /\ IsCall
    /\ last'.op \in {"roster", "stats"}
    /\ \A i \in DOMAIN teams : teams[i].abbreviation # last'.team_abbr

\* C10 as stated: a roster or stats fetch for a team code without a Team
\* row returns False, writes no ledger entry and leaves the datastore
\* unchanged.
C10_MissingTeamWritesNothing ==
    [][IsCallForMissingTeam =>
         /\ last'.ret = "False"
         /\ ledger' = ledger
         /\ EntitiesUnchanged]_vars

\* C10 amended: a roster or stats fetch for a team code without a Team row
\* never changes the entity rows and never returns True; when the adapter
\* returned data and the scope that looked the team up met no persistence
\* failure, it returns False by the not-found return and writes no ledger
\* entry.
C10_MissingTeamWithDataWritesNothing ==
    [][IsCallForMissingTeam =>
         /\ EntitiesUnchanged
         /\ last'.ret # "True"
         /\ (last'.adapter = "data" /\ last'.exc = None) =>
                /\ last'.path = "missing_team"
                /\ last'.ret = "False"
                /\ ledger' = ledger]_vars

\* C10 witness: a stats call for a team code without a row, made when the
\* datastore held teams and a ledger, got data and returned False by the
\* not-found return.
C10_Witness ==
    /\ last.op = "stats"
    /\ last.team_abbr = "MTL"
    /\ last.adapter = "data"
    /\ last.path = "missing_team"
    /\ last.ret = "False"
    /\ teams # <<>>
    /\ ledger # <<>>

\* the entries of a roster payload in the order the method reads them
RosterEntries(body) ==
    IF body.shape = "roster"
    THEN body.forwards \o body.defensemen \o body.goalies
    ELSE <<>>

\* no player id occurs twice among the entries
NoRepeatedId(entries) ==
    \A j, k \in DOMAIN entries :
        (j # k /\ entries[j].id # NoId) => entries[j].id # entries[k].id

\* the rows of players that the step inserted or updated
StoredRows == {i \in DOMAIN players' : i > Len(players) \/ players'[i] # players[i]}

\* C11: the record count that a successful roster fetch writes to the
\* ledger equals the number of players it inserted or updated, also for
\* payloads with entries without a player id.  Stated for payloads that
\* name no player twice.
C11_CountIsStored ==
    [][(/\ IsCall /\ last'.op = "roster" /\ last'.ret = "True"
        /\ NoRepeatedId(RosterEntries(last'.body)))
       => ledger'[Len(ledger')].records_fetched = Cardinality(StoredRows)]_vars

\* the per-team steps of a run over these team codes: roster then stats,
\* team after team
PerTeamSteps(team_abbrs) ==
    [n \in 1..(2 * Len(team_abbrs)) |->
        <<team_abbrs[(n + 1) \div 2], IF n % 2 = 1 THEN "roster" ELSE "stats">>]

\* how many rows of the teams table are active and carry this abbreviation
ActiveRowsOf(abbr) ==
    Cardinality({i \in DOMAIN teams : teams[i].active /\ teams[i].abbreviation = abbr})

\* C12: the per-team steps of a full run are, for each team stored as
\* active after the teams step (one per row), one roster fetch followed by
\* one stats fetch, team after team; none is attempted for a team stored as
\* inactive, whatever the response said.  While the run is under way the
\* steps made are a prefix of that list, and the whole list once it
\* returned.
C12_PerTeamStepsOfActiveTeams ==
    /\ ~run.listed => run.attempted = <<>>
    /\ run.listed =>
          /\ Len(run.team_abbrs) = Cardinality({i \in DOMAIN teams : teams[i].active})
          /\ \A j \in DOMAIN run.team_abbrs :
                 Cardinality({k \in DOMAIN run.team_abbrs :
                                run.team_abbrs[k] = run.team_abbrs[j]})
                     = ActiveRowsOf(run.team_abbrs[j])
          /\ Len(run.attempted) <= 2 * Len(run.team_abbrs)
          /\ run.attempted = SubSeq(PerTeamSteps(run.team_abbrs), 1, Len(run.attempted))
          /\ (run.pc = "done" /\ run.result = "True")
                 => run.attempted = PerTeamSteps(run.team_abbrs)

\* C12 witness: a run returned after its per-team steps while the team of
\* its response that is stored as inactive (the teams step updated the
\* row) got none.
C12_Witness ==
    /\ run.pc = "done"
    /\ run.result = "True"
    /\ run.attempted # <<>>
    /\ \E i \in DOMAIN teams :
           /\ ~teams[i].active
           /\ teams[i].updated_at > teams[i].created_at
           /\ \A k \in DOMAIN run.attempted :
                  run.attempted[k][1] # teams[i].abbreviation

\* C17: the season given to fetch-all (--season S) is the season that the
\* per-team fetches of the run use: a stats fetch of the run that succeeded
\* left a team_stats row of season S.
C17_SeasonOfCommandLine ==
    (/\ run.pc # "idle" /\ run.cli_season # None
     /\ last.op = "stats" /\ last.ret = "True")
        => \E i \in DOMAIN team_stats : team_stats[i].season = run.cli_season

\* C13: every ledger entry carries a duration, on every exit path that
\* writes one, so that the summary view renders the newest entries of any
\* ledger the pipeline produces.
C13_EveryEntryHasDuration ==
    /\ \A i \in DOMAIN ledger : ledger[i].duration_seconds # None
    /\ ShowStats(ledger) = "printed"

\* C16: a fetch command ends with exit code 0 when its operation
\* succeeded and with a non-zero exit code when it failed.
C16_ExitCodeFollowsOutcome ==
    last.op # "none" => (ExitCode(last.ret) = 0 <=> last.ret = "True")

\* the first standings entry with this short code
FirstOf(standings, abbr) ==
    standings[CHOOSE i \in DOMAIN standings :
                /\ standings[i].teamAbbrev = abbr
                /\ \A j \in DOMAIN standings : standings[j].teamAbbrev = abbr => i <= j]

\* team object t describes standings entry st
BuiltFrom(t, st) ==
    /\ t.abbreviation = st.teamAbbrev
    /\ t.city = st.placeName
    /\ t.name = IF st.teamName # None THEN st.teamName
                ELSE st.placeName \o " " \o st.teamCommonName
    /\ ~st.teamLogo.present => t.id = NoId
    /\ st.teamLogo.digits # NoId => t.id = st.teamLogo.digits
    /\ (st.teamLogo.present /\ st.teamLogo.digits = NoId) => t.id \in 0..(HashModulus - 1)

\* C19: the list get_teams returns for a standings payload has at most
\* one entry per short code, the one built from the first standings entry
\* with that code; every short code of the payload is in the list and
\* entries without one are dropped.
C19_OneEntryPerCode ==
    (last.op = "teams" /\ last.shape = "standings") =>
        LET st == last.body.standings
            td == last.teams_data
        IN  /\ \A j, k \in DOMAIN td : j # k => td[j].abbreviation # td[k].abbreviation
            /\ \A k \in DOMAIN td : td[k].abbreviation # None
            /\ \A i \in DOMAIN st :
                   st[i].teamAbbrev # None
                       => \E k \in DOMAIN td : td[k].abbreviation = st[i].teamAbbrev
            /\ \A k \in DOMAIN td : BuiltFrom(td[k], FirstOf(st, td[k].abbreviation))

\* C19 witness: a payload of two different entries with the code BOS gave
\* a list of one team.
C19_Witness ==
    /\ last.op = "teams"
    /\ last.shape = "standings"
    /\ Len(last.body.standings) = 2
    /\ last.body.standings[1].teamAbbrev = "BOS"
    /\ last.body.standings[2].teamAbbrev = "BOS"
    /\ last.body.standings[1] # last.body.standings[2]
    /\ Len(last.teams_data) = 1

\* the season string of two years
SeasonString(y1, y2) == ToString(y1) \o ToString(y2)

\* the step is a successful stats call that wrote a row of this season
StoredSeason(season) ==
    \E i \in DOMAIN team_stats' :
        team_stats'[i].season = season /\ team_stats'[i].updated_at = now'

\* C18: a stats fetch without a season uses "{Y}{Y+1}" on every day of
\* the months October to December of year Y and "{Y-1}{Y}" on every day of
\* January to September; a fetch with a season uses that season.
C18_CurrentSeason ==
    [][(IsCall /\ last'.op = "stats" /\ last'.ret = "True") =>
         LET y == last'.today.year
             m == last'.today.month
         IN  /\ (last'.season = None /\ m \in 10..12) => StoredSeason(SeasonString(y, y + 1))
             /\ (last'.season = None /\ m \in 1..9) => StoredSeason(SeasonString(y - 1, y))
             /\ last'.season # None => StoredSeason(last'.season)]_vars

\* C18 witness: a stats fetch without a season in October 2024 stored a
\* row of season 20242025.
C18_Witness ==
    /\ last.op = "stats"
    /\ last.ret = "True"
    /\ last.season = None
    /\ last.today = [year |-> 2024, month |-> 10]
    /\ \E i \in DOMAIN team_stats :
           team_stats[i].season = "20242025" /\ team_stats[i].updated_at = now

\* birthDate values that are no date in the form YYYY-MM-DD
UnparsableDates == {"2000-02-30", "1900-02-29", "15/01/2000"}

\* the last entry of the payload with this player id: the one whose values
\* the row carries when the call is over
LastEntryFor(entries, id) ==
    entries[CHOOSE k \in DOMAIN entries :
              /\ entries[k].id = id
              /\ \A j \in DOMAIN entries : entries[j].id = id => j <= k]

\* C20: a roster entry whose birthDate is absent or unparsable is stored
\* as a player without a birth date; nothing is raised, the roster fetch
\* commits every entry that has an id and is recorded as a success.
\* Stated for the calls whose connection to the database holds.
C20_NoDateStored ==
    [][(IsCall /\ last'.op = "roster" /\ last'.shape = "roster" /\ last'.conn = "up") =>
         LET entries == RosterEntries(last'.body)
         IN  /\ last'.exc = None
             /\ last'.ret = "True"
             /\ ledger'[Len(ledger')].status = "success"
             /\ \A k \in DOMAIN entries :
                    entries[k].id # NoId =>
                        \E i \in DOMAIN players' :
                            /\ players'[i].nhl_id = entries[k].id
                            /\ players'[i].updated_at = now'
                            /\ LastEntryFor(entries, entries[k].id).birthDate
                                   \in UnparsableDates \cup {None, ""}
                                   => players'[i].birth_date = None]_vars

\* C20 witness: a roster of a player with a date that does not exist and a
\* player with a date was stored: two rows, the first without a birth date.
C20_Witness ==
    /\ last.op = "roster"
    /\ last.ret = "True"
    /\ Len(RosterEntries(last.body)) = 2
    /\ RosterEntries(last.body)[1].birthDate = "2000-02-30"
    /\ RosterEntries(last.body)[2].id = 2
    /\ \E i, j \in DOMAIN players :
           /\ players[i].nhl_id = 1 /\ players[i].birth_date = None
           /\ players[j].nhl_id = 2 /\ players[j].birth_date = "2000-01-15"

(***************************************************************************)
(* The scheduler process (scheduler.py): StatsScheduler.run on a           *)
(* constructed scheduler.  A step is one fetch call of a run, the end of   *)
(* update_all_stats, an iteration of the loop, or a KeyboardInterrupt.     *)
(***************************************************************************)
MaxDays == 2

\* the inputs of the calls of a scheduled run
SchedTeamsBodies ==
    {[shape |-> "standings",
      standings |-> <<StandingEntry("TOR", LogoWithId(10), "Maple Leafs")>>]}

SchedRosterBodies ==
    {RosterBody(<<PlayerEntry(1, "2000-01-15", NameObj("Auston"))>>, <<>>, <<>>)}

SchedStatsBodies == {[shape |-> "stats", standings |-> [wins |-> 5]]}

SchedConnections == {"up", "down"}

SchedToday == {[year |-> 2024, month |-> 11]}

\* main has constructed the scheduler and is about to call run()
InitSched ==
    /\ teams = <<>>
    /\ players = <<>>
    /\ team_stats = <<>>
    /\ ledger = <<>>
    /\ now = 0
    /\ last = NoCall
    /\ run = IdleRun
    /\ sched = [NoSched EXCEPT !.pc = "start"]

\* run, lines 45-52: running is set, the daily job is registered and the
\* initial update is called
SchedRun ==
    /\ sched.pc = "start"
    /\ sched' = [sched EXCEPT !.pc = "initial", !.running = TRUE, !.invoked = @ + 1]
    /\ UNCHANGED <<teams, players, team_stats, ledger, now, last, run>>

\* update_all_stats is executing fetch_all_teams_data (line 29)
Updating == sched.pc \in {"initial", "job"}

SchedTeams ==
    /\ Updating
    /\ RunTeamsStep(RunSeasons, RunResponses(SchedTeamsBodies), {0},
                    SchedConnections, {FALSE})
    /\ UNCHANGED sched

SchedRoster ==
    /\ Updating
    /\ RunRosterStep(RunResponses(SchedRosterBodies), SchedConnections)
    /\ UNCHANGED sched

SchedStats ==
    /\ Updating
    /\ RunStatsStep(SchedToday, RunResponses(SchedStatsBodies), {"up"})
    /\ UNCHANGED sched

SchedReturn ==
    /\ Updating
    /\ RunReturn

\* AfterUpdate with a bug: an exception of the run is not caught
AfterUpdateUncaught(result) == IF result = "raise" THEN "killed" ELSE "loop"

\* update_all_stats, lines 28-32: the value fetch_all_teams_data returns is
\* dropped and an Exception it raises is logged; the caller goes on to the
\* loop either way
AfterUpdate(result) == "loop"

\* fetch_all_teams_data is over and update_all_stats returns to run (line
\* 52) or to run_pending (line 56)
SchedUpdateEnds ==
    /\ Updating
    /\ run.pc = "done"
    /\ sched' = [sched EXCEPT !.pc = AfterUpdate(run.result),
                              !.results = Append(@, run.result)]
    /\ run' = IdleRun
    /\ UNCHANGED <<teams, players, team_stats, ledger, now, last>>

\* line 57: no job is pending and 03:00 passes during the sleep
SchedSleep ==
    /\ sched.pc = "loop"
    /\ sched.running
    /\ sched.day = sched.due
    /\ sched.day < MaxDays
    /\ sched' = [sched EXCEPT !.day = @ + 1]
    /\ UNCHANGED <<teams, players, team_stats, ledger, now, last, run>>

\* line 56: run_pending calls the job that is due and plans it for the
\* next day
SchedRunPending ==
    /\ sched.pc = "loop"
    /\ sched.running
    /\ sched.day > sched.due
    /\ sched' = [sched EXCEPT !.pc = "job", !.due = sched.day, !.invoked = @ + 1]
    /\ UNCHANGED <<teams, players, team_stats, ledger, now, last, run>>

\* the fetch call that is executing while update_all_stats is at run.pc
InFlight ==
    IF run.pc = "idle" THEN "teams"
    ELSE IF run.pc = "roster" /\ run.i <= Len(run.team_abbrs) THEN "roster"
    ELSE IF run.pc = "stats" THEN "stats"
    ELSE None

\* KeyboardInterrupt is no Exception: no handler of the fetch methods, of
\* get_session (database.py:67) or of update_all_stats (line 31) catches
\* it.  The fetch in flight ends without commit and without ledger entry.
\* Raised under the initial update (line 52, outside the try) it leaves
\* run(); raised under the loop (lines 55-57) it is caught at line 59 and
\* stop() is called.
SchedInterrupt ==
    /\ \/ /\ sched.pc = "initial"
          /\ InFlight # None
          /\ sched' = [sched EXCEPT !.pc = "killed",
                                    !.aborted = Append(@, InFlight)]
       \/ /\ sched.pc = "job"
          /\ InFlight # None
          /\ sched' = [sched EXCEPT !.pc = "stopped", !.running = FALSE,
                                    !.aborted = Append(@, InFlight)]
       \/ /\ sched.pc = "loop"
          /\ sched' = [sched EXCEPT !.pc = "stopped", !.running = FALSE]
    /\ UNCHANGED <<teams, players, team_stats, ledger, now, last, run>>

NextSched ==
    \/ SchedRun
    \/ SchedTeams
    \/ SchedRoster
    \/ SchedStats
    \/ SchedReturn
    \/ SchedUpdateEnds
    \/ SchedSleep
    \/ SchedRunPending
    \/ SchedInterrupt

SpecSched == InitSched /\ [][NextSched]_vars

\* C14: an interrupt that arrives while a fetch is in flight does not
\* abort the fetch: the fetch completes and records its ledger entry.
C14_FetchInFlightCompletes ==
    [][(Updating /\ InFlight # None /\ sched'.pc \in {"killed", "stopped"}) =>
          /\ Len(ledger') = Len(ledger) + 1
          /\ sched'.aborted = sched.aborted]_vars

\* C15: run() calls the update once at the start; an update that ends, be
\* it with True, with False or with an exception, leaves the scheduler
\* running in its loop; and in the loop a job that is due is the next thing
\* called unless the scheduler is interrupted.
C15_FailedRunKeepsLoop ==
    [][/\ sched.pc = "start" =>
            /\ sched'.pc = "initial" /\ sched'.invoked = 1 /\ sched'.running
            /\ ledger' = ledger
       /\ (Updating /\ run.pc = "done") =>
            /\ sched'.pc = "loop" /\ sched'.running
            /\ sched'.results = Append(sched.results, run.result)
       /\ (sched.pc = "loop" /\ sched.day > sched.due /\ sched'.pc # "stopped") =>
            /\ sched'.pc = "job" /\ sched'.invoked = sched.invoked + 1
            /\ sched'.running
       /\ (sched.pc = "loop" /\ sched'.pc = "loop") =>
            /\ sched.day = sched.due
            /\ sched'.day = sched.day + 1]_vars

\* C15 witness: the initial run raised, the first daily run returned False,
\* and the second daily run has been called.
C15_Witness ==
    /\ sched.results = <<"raise", "False">>
    /\ sched.pc = "job"
    /\ sched.running
    /\ sched.invoked = 3
    /\ sched.day = 2

(***************************************************************************)
(* The pipeline with the summary view: the fetch-all run step by step and  *)
(* the stats command (main.py: show_stats), which can be issued at any     *)
(* moment from a process of its own.                                       *)
(***************************************************************************)
\* show_stats, lines 91-120: the three counts and the newest entries are
\* read and printed in one scope; nothing is added to the session, so the
\* commit (or the rollback after the TypeError of the format) writes nothing
ShowStatsCommand ==
    /\ last.op # "show"
    /\ last' = [NoCall EXCEPT !.op = "show", !.ret = ShowStats(ledger),
                              !.count = Len(teams) + Len(players) + Len(team_stats)]
    /\ UNCHANGED <<teams, players, team_stats, ledger, now, run, sched>>

NextLedger == FetchAllCommand \/ RunRoster \/ RunStats \/ RunReturn \/ ShowStatsCommand

SpecLedger == InitFetchAll /\ [][NextLedger]_vars

\* C21: the ledger is append-only: every step of the pipeline, be it a
\* fetch call, the end of the full run or the summary view, leaves every
\* existing entry as it is and in its place, a fetch call adds at most one
\* entry behind them, and the summary view adds none.
C21_LedgerAppendOnly ==
    [][/\ Len(ledger') \in {Len(ledger), Len(ledger) + 1}
       /\ \A i \in DOMAIN ledger : ledger'[i] = ledger[i]
       /\ ~IsCall => ledger' = ledger]_vars

\* C21 witness: the summary view ran on a ledger that holds an error entry
\* followed by a success entry of the same fetch type.
C21_Witness ==
    /\ last.op = "show"
    /\ \E i, j \in DOMAIN ledger :
           /\ i < j
           /\ ledger[i].fetch_type = ledger[j].fetch_type
           /\ ledger[i].status = "error"
           /\ ledger[j].status = "success"

(***************************************************************************)
(* The three fetch commands on a datastore that holds TOR, with payloads   *)
(* that store, that fail while storing and that fail at the flush, and     *)
(* with commits that fail: the record of the call keeps the payload.       *)
(***************************************************************************)
MaxScopeCmds == 2

ScopeRosterBodies ==
    {[shape |-> "list"]}
        \cup {RosterBody(f, <<>>, <<>>) : f \in SeqsUpTo(PlayerEntries, MaxRoster)}

ScopeTeamArgs == {"TOR", "MTL"}

ScopeTeams ==
    /\ run.pc = "idle"
    /\ now < 1 + MaxScopeCmds
    /\ \E response \in RunResponses(RunTeamsBodies), conn \in Connections :
           TeamsCall(response, 0, conn)
    /\ UNCHANGED <<run, sched>>

ScopeRoster ==
    /\ run.pc = "idle"
    /\ now < 1 + MaxScopeCmds
    /\ \E team_abbr \in ScopeTeamArgs, response \in RunResponses(ScopeRosterBodies),
          conn \in Connections :
           \E team \in TeamChoices(teams, team_abbr) :
               Returned(FetchAndStoreTeamRoster(DB, team_abbr, team, response.transport,
                                                response.body, Lost1(conn), Lost2(conn),
                                                now + 1),
                        [NoCall EXCEPT !.op = "roster", !.team_abbr = team_abbr,
                                       !.transport = response.transport,
                                       !.shape = response.body.shape,
                                       !.adapter = AdapterTag(response),
                                       !.body = response.body,
                                       !.conn = conn])
    /\ UNCHANGED <<run, sched>>

ScopeStats ==
    /\ run.pc = "idle"
    /\ now < 1 + MaxScopeCmds
    /\ \E team_abbr \in ScopeTeamArgs, season \in Seasons, today \in SchedToday,
          response \in RunResponses(RunStatsBodies), conn \in Connections :
           \E team \in TeamChoices(teams, team_abbr) :
               StatsCall(team_abbr, season, team, today, response, conn)
    /\ UNCHANGED <<run, sched>>

NextScope == ScopeTeams \/ ScopeRoster \/ ScopeStats

SpecScope == InitStored /\ [][NextScope]_vars

\* the ledger entries the step added
NewEntries == SubSeq(ledger', Len(ledger) + 1, Len(ledger'))

\* the rows of the call are committed: a row written at the time of the
\* call for every team of a teams call, for every entry with a player id of
\* a roster call, for the team and season of a stats call
ChangesCommitted ==
    /\ last'.op = "teams" =>
          \A k \in DOMAIN last'.teams_data :
              \E i \in DOMAIN teams' : /\ teams'[i].nhl_id = last'.teams_data[k].id
                                       /\ teams'[i].updated_at = now'
    /\ last'.op = "roster" =>
          \A k \in DOMAIN RosterEntries(last'.body) :
              RosterEntries(last'.body)[k].id # NoId =>
                  \E i \in DOMAIN players' :
                      /\ players'[i].nhl_id = RosterEntries(last'.body)[k].id
                      /\ players'[i].updated_at = now'
    /\ last'.op = "stats" =>
          \E i \in DOMAIN team_stats', t \in DOMAIN teams' :
              /\ teams'[t].abbreviation = last'.team_abbr
              /\ team_stats'[i].team_id = teams'[t].id
              /\ team_stats'[i].updated_at = now'

\* C22: a fetch call leaves at most one entry; the entry is 'success'
\* exactly when the call returns True; with a 'success' entry the rows of
\* the call are committed, and without one the rows of teams, players and
\* team_stats are the ones from before the call.
C22_SuccessEntryMatchesData ==
    [][IsCall =>
         /\ Len(ledger') >= Len(ledger)
         /\ Len(NewEntries) <= 1
         /\ last'.ret = "True" <=>
                (Len(NewEntries) = 1 /\ NewEntries[1].status = "success")
         /\ last'.ret = "True" => ChangesCommitted
         /\ last'.ret # "True" => EntitiesUnchanged]_vars

\* C22 witness: a roster call stored a player in its session and wrote the
\* success entry into it, the commit failed, and the datastore holds the
\* error entry of the call, no success entry for players and no player.
C22_Witness ==
    /\ last.op = "roster"
    /\ last.conn = "lost_once"
    /\ last.exc = "OperationalError"
    /\ last.count >= 1
    /\ last.ret = "False"
    /\ players = <<>>
    /\ ledger[Len(ledger)].status = "error"
    /\ \A i \in DOMAIN ledger :
           ledger[i].fetch_type = "players" => ledger[i].status = "error"

(***************************************************************************)
(* The start of a command process (main.py, scheduler.py) up to its first  *)
(* fetch operation: the construction of DataManager, which constructs the  *)
(* NHLAPIClient, which reads its URLs from config.                         *)
(*   last.op     the command                                               *)
(*   last.path   "construct" | "fetch" | "plain" | "unhandled_error" |     *)
(*               "exited"                                                  *)
(*   last.count  the attributes of config the constructor has read        *)
(***************************************************************************)
\* the attributes an instance of Config has (config.py:8-29)
ConfigAttrs ==
    {"DB_HOST", "DB_PORT", "DB_NAME", "DB_USER", "DB_PASSWORD", "DATABASE_URL",
     "UPDATE_INTERVAL_HOURS", "LOG_LEVEL", "NHL_API_BASE_URL",
     "NHL_STATS_API_BASE_URL"}

\* the attributes NHLAPIClient.__init__ reads, in the order of lines 17-19
ClientReads ==
    <<"NHL_API_BASE_URL", "NHL_STATS_API_BASE_URL", "NHL_LEGACY_API_BASE_URL">>

\* the commands whose function constructs a DataManager before anything
\* else, and the two that do not construct one
FetchCommands == {"fetch-teams", "fetch-roster", "fetch-stats", "fetch-all"}
SchedulerCommands == {"schedule", "scheduler.py"}
PlainCommands == {"init", "stats"}

\* the arguments a command takes
CliTeams(command) ==
    IF command \in {"fetch-roster", "fetch-stats"} THEN TeamArgs ELSE {None}

CliSeasons(command) ==
    IF command \in {"fetch-roster", "fetch-stats", "fetch-all"} THEN Seasons ELSE {None}

\* the datastore the commands find
InitCli ==
    /\ \E stored \in StoredTeams : teams = stored
    /\ players = <<>>
    /\ team_stats = <<>>
    /\ ledger = <<>>
    /\ now = 0
    /\ last = NoCall
    /\ run = IdleRun
    /\ sched = NoSched

\* main, lines 156-183 (scheduler.py: lines 70-92): the command is parsed,
\* the database is initialized and the function of the command is entered
CliStart ==
    /\ last.path \in {None, "exited"}
    /\ \E command \in FetchCommands \cup SchedulerCommands \cup PlainCommands :
           \E team_abbr \in CliTeams(command), season \in CliSeasons(command) :
               last' = [NoCall EXCEPT !.op = command, !.team_abbr = team_abbr,
                                      !.season = season,
                                      !.path = IF command \in PlainCommands
                                               THEN "plain" ELSE "construct"]
    /\ UNCHANGED <<teams, players, team_stats, ledger, now, run, sched>>

\* NHLAPIClient.__init__, lines 17-19, one attribute a step: reading an
\* attribute that config does not have raises AttributeError, which leaves
\* DataManager.__init__ and the function of the command; after the last
\* attribute the command goes on to its fetch operation
CliRead ==
    /\ last.path = "construct"
    /\ LET attr == ClientReads[last.count + 1]
       IN  IF attr \notin ConfigAttrs
           THEN last' = [last EXCEPT !.path = "unhandled_error",
                                     !.exc = "AttributeError"]
           ELSE last' = [last EXCEPT !.count = @ + 1,
                                     !.path = IF last.count + 1 = Len(ClientReads)
                                              THEN "fetch" ELSE "construct"]
    /\ UNCHANGED <<teams, players, team_stats, ledger, now, run, sched>>

\* main, lines 186-196: an exception that reaches main ends the process
\* with 1 (as does the traceback of scheduler.py); init and stats end with 0
CliExit ==
    /\ last.path \in {"unhandled_error", "plain"}
    /\ last' = [last EXCEPT !.path = "exited",
                            !.code = ExitCode(IF last.exc # None THEN "raise" ELSE "True")]
    /\ UNCHANGED <<teams, players, team_stats, ledger, now, run, sched>>

NextCli == CliStart \/ CliRead \/ CliExit

SpecCli == InitCli /\ [][NextCli]_vars

\* C23: the construction of the source adapter never fails: a command that
\* constructs a DataManager reads every attribute from config without error
\* and reaches its fetch operation, never the unhandled-error path.
C23_ConstructionSucceeds ==
    [][last.path = "construct" =>
          /\ last'.exc = None
          /\ last'.path \in {"construct", "fetch"}]_vars

====
